---- MODULE Spec2Model ----
(***************************************************************************)
(* A model of sha-calc (rustedbytes-sha): the digest engine of             *)
(* src/src/hasher.rs and the command-line driver of src/src/main.rs        *)
(* (streaming reader, compute mode, check mode).                           *)
(*                                                                         *)
(* Text is a sequence of one-character strings.  Byte data is a sequence   *)
(* of runs [b |-> byte, n |-> count] in canonical form (no empty run, no   *)
(* two adjacent runs of the same byte), so that inputs longer than the     *)
(* 8192-byte read buffer stay small in the state.                          *)
(***************************************************************************)
EXTENDS Integers, Sequences, FiniteSets, TLC

VARIABLES pc, args, hashfiles, stdin, stdout, stderr, exit_code, all_ok,
          fi, lines, li, all_files, log, opens, call, ret

vars == <<pc, args, hashfiles, stdin, stdout, stderr, exit_code, all_ok,
          fi, lines, li, all_files, log, opens, call, ret>>

(***************************************************************************)
(* Bounds of the model.                                                    *)
(***************************************************************************)
\* the short counts a single read may return, besides "all that is there"
MaxShortRead == 1

(***************************************************************************)
(* Byte data (run-length form).                                            *)
(***************************************************************************)
Min(a, b) == IF a < b THEN a ELSE b

RECURSIVE DLen(_)
DLen(d) == IF d = <<>> THEN 0 ELSE Head(d).n + DLen(Tail(d))

\* Vec::extend / read_to_end appending to all_data: concatenation
DCat(a, b) ==
    IF a = <<>> THEN b
    ELSE IF b = <<>> THEN a
    ELSE IF a[Len(a)].b = b[1].b
         THEN SubSeq(a, 1, Len(a) - 1)
              \o <<[b |-> b[1].b, n |-> a[Len(a)].n + b[1].n]>>
              \o Tail(b)
         ELSE a \o b

\* &buffer[..k]: the first k bytes
RECURSIVE DTake(_, _)
DTake(d, k) ==
    IF k <= 0 \/ d = <<>> THEN <<>>
    ELSE IF Head(d).n <= k
         THEN DCat(<<Head(d)>>, DTake(Tail(d), k - Head(d).n))
         ELSE <<[b |-> Head(d).b, n |-> k]>>

\* what is left in the stream after k bytes were delivered
RECURSIVE DDrop(_, _)
DDrop(d, k) ==
    IF k <= 0 \/ d = <<>> THEN d
    ELSE IF Head(d).n <= k
         THEN DDrop(Tail(d), k - Head(d).n)
         ELSE <<[b |-> Head(d).b, n |-> Head(d).n - k]>> \o Tail(d)

(***************************************************************************)
(* The hash primitives of the sha1, sha2, sha3 and blake2 crates, as the   *)
(* Digest trait presents them: new, update, finalize.  The compression     *)
(* functions are replaced by a small mixing function of the same shape: a  *)
(* state seeded per primitive, absorbing the bytes in order, squeezed to   *)
(* the primitive's fixed output size.                                      *)
(***************************************************************************)
Primitives ==
    {"Sha1", "Sha224", "Sha256", "Sha384", "Sha512", "Sha3_224", "Sha3_256",
     "Sha3_384", "Sha3_512", "Blake2b512", "Blake2s256"}

OutputSize(prim) ==
    CASE prim = "Sha1" -> 20
      [] prim = "Sha224" -> 28
      [] prim = "Sha256" -> 32
      [] prim = "Sha384" -> 48
      [] prim = "Sha512" -> 64
      [] prim = "Sha3_224" -> 28
      [] prim = "Sha3_256" -> 32
      [] prim = "Sha3_384" -> 48
      [] prim = "Sha3_512" -> 64
      [] prim = "Blake2b512" -> 64
      [] prim = "Blake2s256" -> 32

InitialValue(prim) ==
    CASE prim = "Sha1" -> 1009
      [] prim = "Sha224" -> 2003
      [] prim = "Sha256" -> 3001
      [] prim = "Sha384" -> 4001
      [] prim = "Sha512" -> 5003
      [] prim = "Sha3_224" -> 6007
      [] prim = "Sha3_256" -> 7001
      [] prim = "Sha3_384" -> 8009
      [] prim = "Sha3_512" -> 9001
      [] prim = "Blake2b512" -> 10007
      [] prim = "Blake2s256" -> 11003

RECURSIVE Absorb(_, _)
Absorb(acc, d) ==
    IF d = <<>> THEN acc
    ELSE Absorb(((acc * 31 + Head(d).b) * 17 + Head(d).n) % 65521, Tail(d))

New(prim) == [prim |-> prim, acc |-> InitialValue(prim)]

Update(hasher, data) == [hasher EXCEPT !.acc = Absorb(hasher.acc, data)]

Finalize(hasher) ==
    [i \in 1..OutputSize(hasher.prim) |->
        IF i = 1 THEN hasher.acc % 256
        ELSE IF i = 2 THEN (hasher.acc \div 256) % 256
        ELSE ((hasher.acc + 13) * (i * i + i + 1) + (hasher.acc \div 16) * i) % 256]

(***************************************************************************)
(* hex::encode: two lowercase hexadecimal characters per byte.             *)
(***************************************************************************)
HexLower ==
    <<"0", "1", "2", "3", "4", "5", "6", "7", "8", "9",
      "a", "b", "c", "d", "e", "f">>

HexUpper ==
    <<"0", "1", "2", "3", "4", "5", "6", "7", "8", "9",
      "A", "B", "C", "D", "E", "F">>

hex_encode_upper(bytes) ==
    [i \in 1..(2 * Len(bytes)) |->
        IF i % 2 = 1 THEN HexUpper[(bytes[(i + 1) \div 2] \div 16) + 1]
                     ELSE HexUpper[(bytes[(i + 1) \div 2] % 16) + 1]]

hex_encode(bytes) ==
    [i \in 1..(2 * Len(bytes)) |->
        IF i % 2 = 1 THEN HexLower[(bytes[(i + 1) \div 2] \div 16) + 1]
                     ELSE HexLower[(bytes[(i + 1) \div 2] % 16) + 1]]

(***************************************************************************)
(* hasher.rs: the algorithm selector and the two dispatch tables.          *)
(***************************************************************************)
HashAlgorithm ==
    {"Sha1", "Sha224", "Sha256", "Sha384", "Sha512", "Sha3_224", "Sha3_256",
     "Sha3_384", "Sha3_512", "Blake2b", "Blake2s"}

\* a dispatch table with two rows sharing one primitive (a copy-paste slip)
calculate_empty_hash_slip(algorithm) ==
    hex_encode(
        CASE algorithm = "Sha1" -> Finalize(New("Sha1"))
          [] algorithm = "Sha224" -> Finalize(New("Sha224"))
          [] algorithm = "Sha256" -> Finalize(New("Sha256"))
          [] algorithm = "Sha384" -> Finalize(New("Sha384"))
          [] algorithm = "Sha512" -> Finalize(New("Sha512"))
          [] algorithm = "Sha3_224" -> Finalize(New("Sha3_224"))
          [] algorithm = "Sha3_256" -> Finalize(New("Sha3_256"))
          [] algorithm = "Sha3_384" -> Finalize(New("Sha3_384"))
          [] algorithm = "Sha3_512" -> Finalize(New("Sha3_512"))
          [] algorithm = "Blake2b" -> Finalize(New("Blake2b512"))
          [] algorithm = "Blake2s" -> Finalize(New("Sha256")))

calculate_empty_hash(algorithm) ==
    hex_encode(
        CASE algorithm = "Sha1" -> Finalize(New("Sha1"))
          [] algorithm = "Sha224" -> Finalize(New("Sha224"))
          [] algorithm = "Sha256" -> Finalize(New("Sha256"))
          [] algorithm = "Sha384" -> Finalize(New("Sha384"))
          [] algorithm = "Sha512" -> Finalize(New("Sha512"))
          [] algorithm = "Sha3_224" -> Finalize(New("Sha3_224"))
          [] algorithm = "Sha3_256" -> Finalize(New("Sha3_256"))
          [] algorithm = "Sha3_384" -> Finalize(New("Sha3_384"))
          [] algorithm = "Sha3_512" -> Finalize(New("Sha3_512"))
          [] algorithm = "Blake2b" -> Finalize(New("Blake2b512"))
          [] algorithm = "Blake2s" -> Finalize(New("Blake2s256")))

calculate_hash(data, algorithm, is_empty) ==
    IF is_empty THEN calculate_empty_hash(algorithm)
    ELSE hex_encode(
        CASE algorithm = "Sha1" -> Finalize(Update(New("Sha1"), data))
          [] algorithm = "Sha224" -> Finalize(Update(New("Sha224"), data))
          [] algorithm = "Sha256" -> Finalize(Update(New("Sha256"), data))
          [] algorithm = "Sha384" -> Finalize(Update(New("Sha384"), data))
          [] algorithm = "Sha512" -> Finalize(Update(New("Sha512"), data))
          [] algorithm = "Sha3_224" -> Finalize(Update(New("Sha3_224"), data))
          [] algorithm = "Sha3_256" -> Finalize(Update(New("Sha3_256"), data))
          [] algorithm = "Sha3_384" -> Finalize(Update(New("Sha3_384"), data))
          [] algorithm = "Sha3_512" -> Finalize(Update(New("Sha3_512"), data))
          [] algorithm = "Blake2b" -> Finalize(Update(New("Blake2b512"), data))
          [] algorithm = "Blake2s" -> Finalize(Update(New("Blake2s256"), data)))

(***************************************************************************)
(* Text: str::trim, str::to_lowercase, str::lines, str::splitn(2, "  ").   *)
(***************************************************************************)
UpperAlpha ==
    <<"A", "B", "C", "D", "E", "F", "G", "H", "I", "J", "K", "L", "M",
      "N", "O", "P", "Q", "R", "S", "T", "U", "V", "W", "X", "Y", "Z">>

LowerAlpha ==
    <<"a", "b", "c", "d", "e", "f", "g", "h", "i", "j", "k", "l", "m",
      "n", "o", "p", "q", "r", "s", "t", "u", "v", "w", "x", "y", "z">>

UpperSet == {UpperAlpha[i] : i \in 1..26}

LowerSet == {LowerAlpha[i] : i \in 1..26}

IsUpper(c) == c \in UpperSet

IsLower(c) == c \in LowerSet

LowerChar(c) ==
    IF IsUpper(c) THEN LowerAlpha[CHOOSE i \in 1..26 : UpperAlpha[i] = c]
    ELSE c

UpperChar(c) ==
    IF IsLower(c) THEN UpperAlpha[CHOOSE i \in 1..26 : LowerAlpha[i] = c]
    ELSE c

to_lowercase(s) == [i \in 1..Len(s) |-> LowerChar(s[i])]

to_uppercase(s) == [i \in 1..Len(s) |-> UpperChar(s[i])]

IsWhitespace(c) == c \in {" ", "\t", "\n", "\r"}

RECURSIVE trim_start(_)
trim_start(s) ==
    IF s # <<>> /\ IsWhitespace(Head(s)) THEN trim_start(Tail(s)) ELSE s

RECURSIVE trim_end(_)
trim_end(s) ==
    IF s # <<>> /\ IsWhitespace(s[Len(s)])
    THEN trim_end(SubSeq(s, 1, Len(s) - 1))
    ELSE s

trim(s) == trim_end(trim_start(s))

\* the positions where a two-space separator starts
SeparatorAt(s) == {i \in 1..(Len(s) - 1) : s[i] = " " /\ s[i + 1] = " "}

\* line.splitn(2, "  ").collect(): at most two parts, cut at the first separator
splitn2(s) ==
    IF SeparatorAt(s) = {} THEN <<s>>
    ELSE LET i == CHOOSE k \in SeparatorAt(s) : \A j \in SeparatorAt(s) : k <= j
         IN  <<SubSeq(s, 1, i - 1), SubSeq(s, i + 2, Len(s))>>

\* str::lines: cut after every "\n"; drop that "\n" and a "\r" before it
RECURSIVE str_lines(_)
str_lines(content) ==
    IF content = <<>> THEN <<>>
    ELSE LET nl == {i \in 1..Len(content) : content[i] = "\n"}
         IN  IF nl = {} THEN <<content>>
             ELSE LET i == CHOOSE k \in nl : \A j \in nl : k <= j
                      raw == SubSeq(content, 1, i - 1)
                      line == IF raw # <<>> /\ raw[Len(raw)] = "\r"
                              THEN SubSeq(raw, 1, Len(raw) - 1)
                              ELSE raw
                  IN  <<line>> \o str_lines(SubSeq(content, i + 1, Len(content)))

\* println! of each line in turn: the text a terminal or a file receives
RECURSIVE Printed(_)
Printed(ls) ==
    IF ls = <<>> THEN <<>> ELSE Head(ls) \o <<"\n">> \o Printed(Tail(ls))

(***************************************************************************)
(* The files the program can be pointed at.  "a" is a short regular file,  *)
(* "g" a regular file longer than the read buffer, "-" a regular file      *)
(* whose name is a single dash, "d" a directory (it opens, reading it      *)
(* fails); every other path does not exist.                                *)
(***************************************************************************)
BufLen == 8192

FileA == <<"a">>

FileG == <<"g">>

FileDash == <<"-">>

FileD == <<"d">>

FileZ == <<"z">>

DataA == <<[b |-> 120, n |-> 1], [b |-> 121, n |-> 1]>>

DataG == <<[b |-> 120, n |-> BufLen], [b |-> 121, n |-> 1]>>

DataDash == <<[b |-> 45, n |-> 3]>>

\* File::open: a reader over the file's bytes, or an error
file_open(path) ==
    IF path = FileA THEN [ok |-> TRUE, data |-> DataA, end |-> "eof"]
    ELSE IF path = FileG THEN [ok |-> TRUE, data |-> DataG, end |-> "eof"]
    ELSE IF path = FileDash THEN [ok |-> TRUE, data |-> DataDash, end |-> "eof"]
    ELSE IF path = FileD THEN [ok |-> TRUE, data |-> <<>>, end |-> "err"]
    ELSE [ok |-> FALSE, data |-> <<>>, end |-> "err"]

(***************************************************************************)
(* main.rs: calculate_hash_from_reader.  A reader delivers its data and    *)
(* then either end of stream or an I/O error.  bytes_read is what the      *)
(* first read returned: -1 for an error, 0 at end of stream, else a count  *)
(* between 1 and the bytes on hand (a read may return fewer bytes than     *)
(* asked for while more are to come).                                      *)
(***************************************************************************)
FirstReads(reader) ==
    IF reader.data = <<>>
    THEN (IF reader.end = "err" THEN {-1} ELSE {0})
    ELSE {n \in 1..MaxShortRead : n <= Min(DLen(reader.data), BufLen)}
         \cup {Min(DLen(reader.data), BufLen)}

Failure(msg) == [ok |-> FALSE, hash |-> <<>>, err |-> msg]

Success(hash) == [ok |-> TRUE, hash |-> hash, err |-> ""]

calculate_hash_from_reader(reader, algorithm, bytes_read) ==
    IF bytes_read < 0 THEN Failure("Failed to read from input")
    ELSE IF bytes_read = 0 THEN Success(calculate_hash(<<>>, algorithm, TRUE))
    ELSE IF bytes_read = BufLen
    THEN IF reader.end = "err"
         THEN Failure("Failed to read remaining data")
         ELSE Success(calculate_hash(
                  DCat(DTake(reader.data, BufLen), DDrop(reader.data, BufLen)),
                  algorithm, FALSE))
    ELSE Success(calculate_hash(DTake(reader.data, bytes_read), algorithm, FALSE))

(***************************************************************************)
(* Diagnostics on the error stream, and the values left unused by a        *)
(* specification that does not run the whole program.                      *)
(***************************************************************************)
Diag(subject, line, msg) == [subject |-> subject, line |-> line, msg |-> msg]

NoArgs == [algorithm |-> "Sha256", files |-> <<>>, quiet |-> FALSE, check |-> FALSE]

NoStream == [ok |-> TRUE, data |-> <<>>, end |-> "eof"]

NoCall == [data |-> <<>>, algorithm |-> "Sha256", is_empty |-> FALSE,
           reader |-> NoStream, path |-> <<>>]

(***************************************************************************)
(* The digest engine on its own: calculate_hash applied to one input.      *)
(***************************************************************************)
HashInputs == {<<>>, DataA, DataG, DataDash, <<[b |-> 0, n |-> BufLen]>>}

InitHash ==
    /\ pc = "hash"
    /\ call \in {[NoCall EXCEPT !.data = d, !.algorithm = a, !.is_empty = e] :
                    d \in HashInputs, a \in HashAlgorithm, e \in BOOLEAN}
    /\ ret = Success(<<>>)
    /\ args = NoArgs /\ hashfiles = <<>> /\ stdin = NoStream
    /\ stdout = <<>> /\ stderr = <<>> /\ exit_code = -1 /\ all_ok = TRUE
    /\ fi = 0 /\ lines = <<>> /\ li = 0 /\ all_files = <<>>
    /\ log = <<>> /\ opens = <<>>

HashCall ==
    /\ pc = "hash"
    /\ ret' = Success(calculate_hash(call.data, call.algorithm, call.is_empty))
    /\ pc' = "returned"
    /\ UNCHANGED <<args, hashfiles, stdin, stdout, stderr, exit_code, all_ok,
                   fi, lines, li, all_files, log, opens, call>>

NextHash == HashCall

SpecHash == InitHash /\ [][NextHash]_vars

(***************************************************************************)
(* The streaming reader on its own: calculate_hash_from_reader applied to  *)
(* one stream, the first read returning any count it may.                  *)
(***************************************************************************)
Readers ==
    {[ok |-> TRUE, data |-> d, end |-> e] :
        d \in {<<>>, DataA, DataG, DataDash, <<[b |-> 0, n |-> BufLen]>>},
        e \in {"eof", "err"}}

InitReader ==
    /\ pc = "reader"
    /\ call \in {[NoCall EXCEPT !.reader = r, !.algorithm = a] :
                    r \in Readers, a \in HashAlgorithm}
    /\ ret = Success(<<>>)
    /\ args = NoArgs /\ hashfiles = <<>> /\ stdin = NoStream
    /\ stdout = <<>> /\ stderr = <<>> /\ exit_code = -1 /\ all_ok = TRUE
    /\ fi = 0 /\ lines = <<>> /\ li = 0 /\ all_files = <<>>
    /\ log = <<>> /\ opens = <<>>

ReaderCall ==
    /\ pc = "reader"
    /\ \E bytes_read \in FirstReads(call.reader) :
          ret' = calculate_hash_from_reader(call.reader, call.algorithm, bytes_read)
    /\ pc' = "returned"
    /\ UNCHANGED <<args, hashfiles, stdin, stdout, stderr, exit_code, all_ok,
                   fi, lines, li, all_files, log, opens, call>>

NextReader == ReaderCall

SpecReader == InitReader /\ [][NextReader]_vars

(***************************************************************************)
(* main.rs: check mode.  process_file_check and the body of the loop over  *)
(* the lines of a manifest, as functions of the line and of what the first *)
(* read of the target file returns.  The result of a line says what was    *)
(* printed (out), what went to the error stream (err), whether all_ok      *)
(* survives (pass), which paths were handed to File::open (opened), and    *)
(* the arm taken (outcome).                                                *)
(***************************************************************************)
\* a comparison of the two digests as they stand
process_file_check_exact(file_path, expected_hash, algorithm, bytes_read) ==
    LET file == file_open(file_path)
        actual == calculate_hash_from_reader(file, algorithm, bytes_read)
    IN  IF ~file.ok
        THEN [ok |-> FALSE, value |-> FALSE, err |-> "Failed to open file",
              actual_hash |-> <<>>]
        ELSE IF ~actual.ok
        THEN [ok |-> FALSE, value |-> FALSE, err |-> actual.err,
              actual_hash |-> <<>>]
        ELSE [ok |-> TRUE, value |-> actual.hash = expected_hash,
              err |-> "", actual_hash |-> actual.hash]

process_file_check(file_path, expected_hash, algorithm, bytes_read) ==
    LET file == file_open(file_path)
        actual == calculate_hash_from_reader(file, algorithm, bytes_read)
    IN  IF ~file.ok
        THEN [ok |-> FALSE, value |-> FALSE, err |-> "Failed to open file",
              actual_hash |-> <<>>]
        ELSE IF ~actual.ok
        THEN [ok |-> FALSE, value |-> FALSE, err |-> actual.err,
              actual_hash |-> <<>>]
        ELSE [ok |-> TRUE,
              value |-> to_lowercase(actual.hash) = to_lowercase(expected_hash),
              err |-> "", actual_hash |-> actual.hash]

OkSuffix == <<":", " ", "O", "K">>

FailedSuffix == <<":", " ", "F", "A", "I", "L", "E", "D">>

LineResult(outcome, out, err, pass, opened, expected, label, actual) ==
    [outcome |-> outcome, out |-> out, err |-> err, pass |-> pass,
     opened |-> opened, expected |-> expected, label |-> label,
     actual |-> actual]

\* an Ok arm that reports FAILED when asked to be quiet
ok_arm_quiet_slip(file_path, expected_hash, quiet, checked) ==
    LineResult("Ok",
               IF quiet THEN <<file_path \o FailedSuffix>>
                        ELSE <<file_path \o OkSuffix>>,
               <<>>, TRUE, <<file_path>>, expected_hash, file_path,
               checked.actual_hash)

\* Ok(true) => if !args.quiet { println!("{}: OK", file_path) }
ok_arm(file_path, expected_hash, quiet, checked) ==
    LineResult("Ok",
               IF quiet THEN <<>> ELSE <<file_path \o OkSuffix>>,
               <<>>, TRUE, <<file_path>>, expected_hash, file_path,
               checked.actual_hash)

\* a Mismatch arm that prints FAILED and forgets to clear all_ok
mismatch_arm_forgetful(file_path, expected_hash, checked) ==
    LineResult("Mismatch", <<file_path \o FailedSuffix>>, <<>>,
               TRUE, <<file_path>>, expected_hash, file_path,
               checked.actual_hash)

\* Ok(false) => { println!("{}: FAILED", file_path); all_ok = false; }
mismatch_arm(file_path, expected_hash, checked) ==
    LineResult("Mismatch", <<file_path \o FailedSuffix>>, <<>>,
               FALSE, <<file_path>>, expected_hash, file_path,
               checked.actual_hash)

\* a malformed line that is only reported, leaving all_ok as it was
malformed_arm_forgiving(hash_file, line_num) ==
    LineResult("Error", <<>>,
               <<Diag(hash_file, line_num + 1, "improperly formatted")>>,
               TRUE, <<>>, <<>>, <<>>, <<>>)

\* if parts.len() != 2 { eprintln!(...); all_ok = false; continue; }
malformed_arm(hash_file, line_num) ==
    LineResult("Error", <<>>,
               <<Diag(hash_file, line_num + 1, "improperly formatted")>>,
               FALSE, <<>>, <<>>, <<>>, <<>>)

\* what File::open never returns: the handle io::stdin().lock() gives
StdinLock == <<"io::stdin">>

\* a dash arm that hashes standard input, as compute mode does for "-"
stdin_arm_reading(expected_hash, file_path) ==
    LET actual == calculate_hash(stdin.data, args.algorithm, stdin.data = <<>>)
    IN  IF to_lowercase(actual) = to_lowercase(expected_hash)
        THEN LineResult("Ok", <<file_path \o OkSuffix>>, <<>>, TRUE,
                        <<StdinLock>>, expected_hash, file_path, actual)
        ELSE LineResult("Mismatch", <<file_path \o FailedSuffix>>, <<>>, FALSE,
                        <<StdinLock>>, expected_hash, file_path, actual)

\* if file_path == "-" { eprintln!("sha-calc: cannot check stdin");
\*                       all_ok = false; continue; }
stdin_arm(expected_hash, file_path) ==
    LineResult("Error", <<>>, <<Diag(<<>>, 0, "cannot check stdin")>>,
               FALSE, <<>>, expected_hash, file_path, <<>>)

check_line(line, hash_file, line_num, algorithm, quiet, bytes_read) ==
    IF trim(line) = <<>>
    THEN LineResult("Skip", <<>>, <<>>, TRUE, <<>>, <<>>, <<>>, <<>>)
    ELSE LET parts == splitn2(line)
         IN  IF Len(parts) # 2
             THEN malformed_arm(hash_file, line_num)
             ELSE LET expected_hash == parts[1]
                      file_path == parts[2]
                      checked == process_file_check(file_path, expected_hash,
                                                    algorithm, bytes_read)
                  IN  IF file_path = <<"-">>
                      THEN stdin_arm(expected_hash, file_path)
                      ELSE IF checked.ok /\ checked.value
                      THEN ok_arm(file_path, expected_hash, quiet, checked)
                      ELSE IF checked.ok
                      THEN mismatch_arm(file_path, expected_hash, checked)
                      ELSE LineResult("Error", <<>>,
                               <<Diag(file_path, 0, checked.err)>>,
                               FALSE, <<file_path>>, expected_hash, file_path,
                               <<>>)

\* what the first read of the line's target may return (0 when the line
\* never gets as far as reading a file)
LineReads(line) ==
    LET parts == splitn2(line)
    IN  IF trim(line) # <<>> /\ Len(parts) = 2 /\ parts[2] # <<"-">>
           /\ file_open(parts[2]).ok
        THEN FirstReads(file_open(parts[2]))
        ELSE {0}

\* std::fs::read_to_string(hash_file)
read_to_string(hash_file) ==
    LET S == {i \in 1..Len(hashfiles) : hashfiles[i].name = hash_file}
    IN  IF S = {} THEN [ok |-> FALSE, content |-> <<>>]
        ELSE LET f == hashfiles[CHOOSE i \in S : TRUE]
             IN  [ok |-> f.readable, content |-> f.content]

LogEntry(r, line, bytes_read) ==
    [file |-> fi, line_num |-> li, line |-> line, bytes_read |-> bytes_read,
     outcome |-> r.outcome, out |-> r.out, err |-> r.err, pass |-> r.pass,
     opened |-> r.opened, expected |-> r.expected, label |-> r.label,
     actual |-> r.actual]

\* check_hashes entered: no manifest named is fatal, else the sweep starts
CheckStart ==
    /\ pc = "check"
    /\ IF args.files = <<>>
       THEN /\ stderr' = Append(stderr,
                    Diag(<<>>, 0, "No hash files specified for checking"))
            /\ exit_code' = 1
            /\ pc' = "done"
            /\ UNCHANGED <<all_ok, fi>>
       ELSE /\ all_ok' = TRUE
            /\ fi' = 1
            /\ pc' = "manifest"
            /\ UNCHANGED <<stderr, exit_code>>
    /\ UNCHANGED <<args, hashfiles, stdin, stdout, lines, li, all_files,
                   log, opens, call, ret>>

\* the `?` on a manifest that cannot be read leaves check_hashes at once
read_manifest_failed ==
    /\ stderr' = Append(stderr,
            Diag(args.files[fi], 0, "Failed to read hash file"))
    /\ exit_code' = 1
    /\ pc' = "done"
    /\ UNCHANGED <<lines, li, all_ok>>

\* for hash_file in &args.files: read the next manifest
ReadManifest ==
    /\ pc = "manifest"
    /\ fi <= Len(args.files)
    /\ IF ~read_to_string(args.files[fi]).ok
       THEN read_manifest_failed
       ELSE /\ lines' = str_lines(read_to_string(args.files[fi]).content)
            /\ li' = 1
            /\ pc' = "line"
            /\ UNCHANGED <<stderr, exit_code, all_ok>>
    /\ UNCHANGED <<args, hashfiles, stdin, stdout, fi, all_files,
                   log, opens, call, ret>>

\* for (line_num, line) in content.lines().enumerate(): one line
CheckLine ==
    /\ pc = "line"
    /\ li <= Len(lines)
    /\ \E bytes_read \in LineReads(lines[li]) :
          \E r \in {check_line(lines[li], args.files[fi], li - 1,
                              args.algorithm, args.quiet, bytes_read)} :
              /\ stdout' = stdout \o r.out
              /\ stderr' = stderr \o r.err
              /\ all_ok' = (all_ok /\ r.pass)
              /\ opens' = opens \o r.opened
              /\ log' = Append(log, LogEntry(r, lines[li], bytes_read))
    /\ li' = li + 1
    /\ UNCHANGED <<pc, args, hashfiles, stdin, exit_code, fi, lines,
                   all_files, call, ret>>

\* the lines of this manifest are exhausted: on to the next manifest
NextManifest ==
    /\ pc = "line"
    /\ li > Len(lines)
    /\ fi' = fi + 1
    /\ pc' = "manifest"
    /\ UNCHANGED <<args, hashfiles, stdin, stdout, stderr, exit_code, all_ok,
                   lines, li, all_files, log, opens, call, ret>>

\* if !all_ok { std::process::exit(1) } Ok(())
CheckEnd ==
    /\ pc = "manifest"
    /\ fi > Len(args.files)
    /\ exit_code' = (IF all_ok THEN 0 ELSE 1)
    /\ pc' = "done"
    /\ UNCHANGED <<args, hashfiles, stdin, stdout, stderr, all_ok, fi,
                   lines, li, all_files, log, opens, call, ret>>

NextCheck == CheckStart \/ ReadManifest \/ CheckLine \/ NextManifest \/ CheckEnd

(***************************************************************************)
(* The invocations of check mode the model starts from: up to MaxManifests *)
(* manifests, each unreadable or holding lines, MaxLines lines in all,     *)
(* under one of the first MaxAlgorithms selectors, quiet or not.           *)
(***************************************************************************)
MaxManifests == 2

MaxLines == 2

MaxAlgorithms == 1

AlgorithmOrder ==
    <<"Sha1", "Sha224", "Sha256", "Sha384", "Sha512", "Sha3_224", "Sha3_256",
      "Sha3_384", "Sha3_512", "Blake2b", "Blake2s">>

FirstAlgorithms == {AlgorithmOrder[i] : i \in 1..Min(MaxAlgorithms, 11)}

Sep == <<" ", " ">>

\* the lines a manifest may hold: blank, no separator, the right digest in
\* lower and in upper case, a stale digest, a missing target, a dash target
ManifestLines(a) ==
    LET good == calculate_hash(DataA, a, FALSE)
        stale == calculate_hash(<<>>, a, TRUE)
    IN  { <<" ", " ">>,
          good \o <<" ">> \o FileA,
          good \o Sep \o FileA,
          to_uppercase(good) \o Sep \o FileA,
          stale \o Sep \o FileA,
          good \o Sep \o FileZ,
          good \o Sep \o FileDash }

RECURSIVE LineSeqs(_, _)
LineSeqs(a, k) ==
    IF k = 0 THEN {<<>>}
    ELSE {<<>>} \cup {<<l>> \o ls : l \in ManifestLines(a), ls \in LineSeqs(a, k - 1)}

HashFileName(i) == <<"m", HexLower[i + 1]>>

\* the manifests i..n, holding at most k lines between them
RECURSIVE HashFiles(_, _, _, _)
HashFiles(a, i, n, k) ==
    IF i > n THEN {<<>>}
    ELSE {<<[name |-> HashFileName(i), readable |-> FALSE, content |-> <<>>]>>
              \o rest : rest \in HashFiles(a, i + 1, n, k)}
         \cup UNION {
              {<<[name |-> HashFileName(i), readable |-> TRUE,
                  content |-> Printed(ls)]>> \o rest :
                  rest \in HashFiles(a, i + 1, n, k - Len(ls))} :
              ls \in LineSeqs(a, k)}

InitCheck ==
    /\ pc = "check"
    /\ \E a \in FirstAlgorithms, q \in BOOLEAN, n \in 0..MaxManifests :
          \E hf \in HashFiles(a, 1, n, MaxLines) :
              /\ hashfiles = hf
              /\ args = [algorithm |-> a, quiet |-> q, check |-> TRUE,
                         files |-> [i \in 1..n |-> hf[i].name]]
    /\ stdin = [ok |-> TRUE, data |-> DataA, end |-> "eof"]
    /\ stdout = <<>> /\ stderr = <<>> /\ exit_code = -1 /\ all_ok = TRUE
    /\ fi = 0 /\ lines = <<>> /\ li = 0 /\ all_files = <<>>
    /\ log = <<>> /\ opens = <<>>
    /\ call = NoCall /\ ret = Success(<<>>)

SpecCheck == InitCheck /\ [][NextCheck]_vars

(***************************************************************************)
(* Check mode on manifests whose lines carry whitespace around the fields: *)
(* no manifest, or one manifest, unreadable or holding up to MaxLines      *)
(* lines.                                                                  *)
(***************************************************************************)
\* a blank line of a tab and a space, a plain line, a line with a space
\* before the digest, one with a space after the path, one whose label
\* holds a second separator, and a digest followed by two spaces only
ParseLines(a) ==
    LET good == calculate_hash(DataA, a, FALSE)
    IN  { <<"\t", " ">>,
          good \o Sep \o FileA,
          <<" ">> \o good \o Sep \o FileA,
          good \o Sep \o FileA \o <<" ">>,
          good \o Sep \o FileA \o Sep \o FileG,
          good \o Sep }

RECURSIVE ParseSeqs(_, _)
ParseSeqs(a, k) ==
    IF k = 0 THEN {<<>>}
    ELSE {<<>>} \cup {<<l>> \o ls : l \in ParseLines(a), ls \in ParseSeqs(a, k - 1)}

ParseFiles(a) ==
    {<<>>, <<[name |-> HashFileName(1), readable |-> FALSE, content |-> <<>>]>>}
        \cup {<<[name |-> HashFileName(1), readable |-> TRUE,
                 content |-> Printed(ls)]>> : ls \in ParseSeqs(a, MaxLines)}

InitParse ==
    /\ pc = "check"
    /\ \E a \in FirstAlgorithms, q \in BOOLEAN :
          \E hf \in ParseFiles(a) :
              /\ hashfiles = hf
              /\ args = [algorithm |-> a, quiet |-> q, check |-> TRUE,
                         files |-> [i \in 1..Len(hf) |-> hf[i].name]]
    /\ stdin = [ok |-> TRUE, data |-> DataA, end |-> "eof"]
    /\ stdout = <<>> /\ stderr = <<>> /\ exit_code = -1 /\ all_ok = TRUE
    /\ fi = 0 /\ lines = <<>> /\ li = 0 /\ all_files = <<>>
    /\ log = <<>> /\ opens = <<>>
    /\ call = NoCall /\ ret = Success(<<>>)

SpecParse == InitParse /\ [][NextCheck]_vars

(***************************************************************************)
(* main.rs: compute mode.  String order (all_files.sort()) is the order of *)
(* the bytes; Ascii lists the printable characters from code 32 up (the    *)
(* grave accent, code 96, by name).                                        *)
(***************************************************************************)
Ascii ==
    <<" ", "!", "\"", "#", "$", "%", "&", "'", "(", ")", "*", "+", ",", "-",
      ".", "/", "0", "1", "2", "3", "4", "5", "6", "7", "8", "9", ":", ";",
      "<", "=", ">", "?", "@", "A", "B", "C", "D", "E", "F", "G", "H", "I",
      "J", "K", "L", "M", "N", "O", "P", "Q", "R", "S", "T", "U", "V", "W",
      "X", "Y", "Z", "[", "\\", "]", "^", "_", "grave", "a", "b", "c", "d", "e",
      "f", "g", "h", "i", "j", "k", "l", "m", "n", "o", "p", "q", "r", "s",
      "t", "u", "v", "w", "x", "y", "z", "{", "|", "}", "~">>

CharCode(c) == 31 + (CHOOSE i \in 1..Len(Ascii) : Ascii[i] = c)

RECURSIVE str_less(_, _)
str_less(s, t) ==
    IF t = <<>> THEN FALSE
    ELSE IF s = <<>> THEN TRUE
    ELSE IF Head(s) # Head(t) THEN CharCode(Head(s)) < CharCode(Head(t))
    ELSE str_less(Tail(s), Tail(t))

RECURSIVE insert_sorted(_, _)
insert_sorted(x, sorted) ==
    IF sorted = <<>> THEN <<x>>
    ELSE IF str_less(x, Head(sorted)) THEN <<x>> \o sorted
    ELSE <<Head(sorted)>> \o insert_sorted(x, Tail(sorted))

RECURSIVE sort(_)
sort(v) == IF v = <<>> THEN <<>> ELSE insert_sorted(Head(v), sort(Tail(v)))

\* pattern.contains('*') || pattern.contains('?') || pattern.contains('[')
is_pattern(pattern) ==
    \E i \in 1..Len(pattern) : pattern[i] \in {"*", "?", "["}

\* glob::glob in the directory of the files above: "*" and "?" match its
\* four one-character entries, a "[" that is never closed is no pattern
glob(pattern) ==
    IF \E i \in 1..Len(pattern) :
          pattern[i] = "[" /\ \A j \in (i + 1)..Len(pattern) : pattern[j] # "]"
    THEN [ok |-> FALSE, paths |-> <<>>]
    ELSE IF pattern \in {<<"*">>, <<"?">>}
    THEN [ok |-> TRUE, paths |-> <<FileDash, FileA, FileD, FileG>>]
    ELSE [ok |-> TRUE, paths |-> <<>>]

\* for pattern in &args.files: the paths gathered before the first pattern
\* that glob rejects, and whether there was one
RECURSIVE expand(_)
expand(patterns) ==
    IF patterns = <<>> THEN [ok |-> TRUE, paths |-> <<>>, pattern |-> <<>>]
    ELSE LET rest == expand(Tail(patterns))
             here == IF is_pattern(Head(patterns))
                     THEN glob(Head(patterns))
                     ELSE [ok |-> TRUE, paths |-> <<Head(patterns)>>]
         IN  IF ~here.ok
             THEN [ok |-> FALSE, paths |-> <<>>, pattern |-> Head(patterns)]
             ELSE IF ~rest.ok THEN rest
             ELSE [ok |-> TRUE, paths |-> here.paths \o rest.paths,
                   pattern |-> <<>>]

process_file(file_path, algorithm, quiet, bytes_read) ==
    LET file == file_open(file_path)
        hash == calculate_hash_from_reader(file, algorithm, bytes_read)
    IN  IF ~file.ok
        THEN [ok |-> FALSE, out |-> <<>>, err |-> "Failed to open file"]
        ELSE IF ~hash.ok
        THEN [ok |-> FALSE, out |-> <<>>, err |-> hash.err]
        ELSE [ok |-> TRUE,
              out |-> IF quiet THEN <<hash.hash>>
                      ELSE <<hash.hash \o <<" ", " ">> \o file_path>>,
              err |-> ""]

FileReads(file_path) ==
    IF file_open(file_path).ok THEN FirstReads(file_open(file_path)) ELSE {0}

\* no file named: hash standard input
ComputeStdin ==
    /\ pc = "compute"
    /\ args.files = <<>>
    /\ \E bytes_read \in FirstReads(stdin) :
          \E hash \in {calculate_hash_from_reader(stdin, args.algorithm,
                                                   bytes_read)} :
              IF hash.ok
              THEN /\ stdout' = Append(stdout,
                          IF args.quiet THEN hash.hash
                          ELSE hash.hash \o <<" ", " ", "-">>)
                   /\ exit_code' = 0
                   /\ UNCHANGED stderr
              ELSE /\ stderr' = Append(stderr, Diag(<<>>, 0, hash.err))
                   /\ exit_code' = 1
                   /\ UNCHANGED stdout
    /\ opens' = Append(opens, StdinLock)
    /\ pc' = "done"
    /\ UNCHANGED <<args, hashfiles, stdin, all_ok, fi, lines, li, all_files,
                   log, call, ret>>

\* the files named are expanded and sorted; a pattern glob rejects is fatal
ExpandFiles ==
    /\ pc = "compute"
    /\ args.files # <<>>
    /\ IF ~expand(args.files).ok
       THEN /\ stderr' = Append(stderr,
                    Diag(expand(args.files).pattern, 0,
                         "Failed to parse glob pattern"))
            /\ exit_code' = 1
            /\ pc' = "done"
            /\ UNCHANGED <<all_files, fi>>
       ELSE /\ all_files' = sort(expand(args.files).paths)
            /\ fi' = 1
            /\ pc' = "files"
            /\ UNCHANGED <<stderr, exit_code>>
    /\ UNCHANGED <<args, hashfiles, stdin, stdout, all_ok, lines, li,
                   log, opens, call, ret>>

\* a failure that is reported and stepped over
process_file_failed_skipping(err) ==
    /\ stderr' = Append(stderr, Diag(all_files[fi], 0, err))
    /\ fi' = fi + 1
    /\ UNCHANGED <<exit_code, pc>>

\* Err(e) => { eprintln!("sha-calc: {}: {}", file_path, e); exit(1) }
process_file_failed(err) ==
    /\ stderr' = Append(stderr, Diag(all_files[fi], 0, err))
    /\ exit_code' = 1
    /\ pc' = "done"
    /\ UNCHANGED fi

\* for file_path in all_files: one file
ProcessFile ==
    /\ pc = "files"
    /\ fi <= Len(all_files)
    /\ \E bytes_read \in FileReads(all_files[fi]) :
          \E r \in {process_file(all_files[fi], args.algorithm, args.quiet,
                                bytes_read)} :
              IF r.ok
              THEN /\ stdout' = stdout \o r.out
                   /\ fi' = fi + 1
                   /\ UNCHANGED <<stderr, exit_code, pc>>
              ELSE /\ process_file_failed(r.err)
                   /\ UNCHANGED stdout
    /\ opens' = Append(opens, all_files[fi])
    /\ UNCHANGED <<args, hashfiles, stdin, all_ok, lines, li, all_files,
                   log, call, ret>>

\* every file was processed: Ok(())
ComputeEnd ==
    /\ pc = "files"
    /\ fi > Len(all_files)
    /\ exit_code' = 0
    /\ pc' = "done"
    /\ UNCHANGED <<args, hashfiles, stdin, stdout, stderr, all_ok, fi,
                   lines, li, all_files, log, opens, call, ret>>

NextCompute == ComputeStdin \/ ExpandFiles \/ ProcessFile \/ ComputeEnd

(***************************************************************************)
(* The invocations of compute mode the model starts from: up to MaxFiles   *)
(* arguments (paths and patterns), any selector, quiet or not; with no     *)
(* argument, any stream on standard input.                                 *)
(***************************************************************************)
MaxFiles == 2

FileArgs == {FileA, FileG, FileDash, FileD, FileZ, <<"*">>, <<"[">>}

RECURSIVE ArgLists(_)
ArgLists(n) ==
    IF n = 0 THEN {<<>>}
    ELSE {<<>>} \cup {<<f>> \o fs : f \in FileArgs, fs \in ArgLists(n - 1)}

InitCompute ==
    /\ pc = "compute"
    /\ \E a \in HashAlgorithm, q \in BOOLEAN, fs \in ArgLists(MaxFiles) :
          args = [algorithm |-> a, quiet |-> q, check |-> FALSE, files |-> fs]
    /\ stdin \in (IF args.files = <<>> THEN Readers ELSE {NoStream})
    /\ hashfiles = <<>>
    /\ stdout = <<>> /\ stderr = <<>> /\ exit_code = -1 /\ all_ok = TRUE
    /\ fi = 0 /\ lines = <<>> /\ li = 0 /\ all_files = <<>>
    /\ log = <<>> /\ opens = <<>>
    /\ call = NoCall /\ ret = Success(<<>>)

SpecCompute == InitCompute /\ [][NextCompute]_vars

(***************************************************************************)
(* Round trip, as tests/integration_tests.rs test_check_mode does it: one  *)
(* file is hashed in compute mode, what was printed becomes a manifest,    *)
(* and check mode is run on it under the same selector.                    *)
(***************************************************************************)
InitRoundTrip ==
    /\ pc = "compute"
    /\ \E a \in HashAlgorithm, f \in {FileA, FileG, FileDash, FileD, FileZ} :
          args = [algorithm |-> a, quiet |-> FALSE, check |-> FALSE,
                  files |-> <<f>>]
    /\ stdin = NoStream
    /\ hashfiles = <<>>
    /\ stdout = <<>> /\ stderr = <<>> /\ exit_code = -1 /\ all_ok = TRUE
    /\ fi = 0 /\ lines = <<>> /\ li = 0 /\ all_files = <<>>
    /\ log = <<>> /\ opens = <<>>
    /\ call = NoCall /\ ret = Success(<<>>)

FeedManifest ==
    /\ pc = "done"
    /\ ~args.check
    /\ exit_code = 0
    /\ hashfiles' = <<[name |-> HashFileName(1), readable |-> TRUE,
                       content |-> Printed(stdout)]>>
    /\ args' = [args EXCEPT !.check = TRUE, !.files = <<HashFileName(1)>>]
    /\ call' = [call EXCEPT !.path = args.files[1]]
    /\ stdout' = <<>>
    /\ stderr' = <<>>
    /\ opens' = <<>>
    /\ exit_code' = -1
    /\ pc' = "check"
    /\ UNCHANGED <<stdin, all_ok, fi, lines, li, all_files, log, ret>>

NextRoundTrip ==
    \/ ExpandFiles \/ ProcessFile \/ ComputeEnd
    \/ FeedManifest
    \/ CheckStart \/ ReadManifest \/ CheckLine \/ NextManifest \/ CheckEnd

SpecRoundTrip == InitRoundTrip /\ [][NextRoundTrip]_vars

(***************************************************************************)
(* Properties of the digest engine and of the streaming reader.            *)
(***************************************************************************)
LowerHexDigits ==
    {"0", "1", "2", "3", "4", "5", "6", "7", "8", "9", "a", "b", "c", "d", "e", "f"}

\* the byte widths the specification lists, selector by selector
ListedWidth(algorithm) ==
    CASE algorithm = "Sha1" -> 20
      [] algorithm = "Sha224" -> 28
      [] algorithm = "Sha256" -> 32
      [] algorithm = "Sha384" -> 48
      [] algorithm = "Sha512" -> 64
      [] algorithm = "Sha3_224" -> 28
      [] algorithm = "Sha3_256" -> 32
      [] algorithm = "Sha3_384" -> 48
      [] algorithm = "Sha3_512" -> 64
      [] algorithm = "Blake2b" -> 64
      [] algorithm = "Blake2s" -> 32

\* C4: for a stream that ends in end-of-stream, whatever count the first
\* read returns, calculate_hash_from_reader succeeds and returns the digest
\* of all the bytes of the stream.
C4_ReaderHashesWholeStream ==
    (pc = "returned" /\ call.reader.end = "eof")
        => /\ ret.ok
           /\ ret.hash = calculate_hash(call.reader.data, call.algorithm, FALSE)

\* C5: with the empty marker set, whatever the data, calculate_hash returns
\* what it returns for a zero-length sequence without the marker, and a
\* zero-length sequence without the marker gives what calculate_empty_hash
\* gives; this for each of the eleven selectors.
C5_EmptyMarkerIsZeroLength ==
    /\ Cardinality(HashAlgorithm) = 11
    /\ \A a \in HashAlgorithm :
          calculate_empty_hash(a) = calculate_hash(<<>>, a, FALSE)
    /\ pc = "returned" =>
          /\ call.is_empty =>
                ret.hash = calculate_hash(<<>>, call.algorithm, FALSE)
          /\ (~call.is_empty /\ call.data = <<>>) =>
                ret.hash = calculate_hash(DataG, call.algorithm, TRUE)

C5_Witness ==
    /\ pc = "returned"
    /\ call.is_empty
    /\ call.data = DataG
    /\ call.algorithm = "Blake2s"
    /\ ret.hash = calculate_hash(<<>>, "Blake2s", FALSE)

\* C6: the string calculate_hash returns is lowercase hexadecimal of exactly
\* twice the listed width of the selector, whatever the input and whichever
\* of the two paths computed it.
C6_DigestIsLowerHexOfListedWidth ==
    pc = "returned" =>
        /\ Len(ret.hash) = 2 * ListedWidth(call.algorithm)
        /\ \A i \in 1..Len(ret.hash) : ret.hash[i] \in LowerHexDigits

C6_Witness ==
    /\ pc = "returned"
    /\ ~call.is_empty
    /\ call.data = DataG
    /\ call.algorithm = "Sha3_384"
    /\ Len(ret.hash) = 96

(***************************************************************************)
(* Properties of check mode.                                               *)
(***************************************************************************)
IsBlankLine(l) == \A i \in 1..Len(l) : l[i] \in {" ", "\t", "\r", "\n"}

HasSeparator(l) == \E k \in 1..(Len(l) - 1) : l[k] = " " /\ l[k + 1] = " "

\* the lines of the i-th manifest named on the command line
LinesOf(i) ==
    IF hashfiles[i].readable THEN str_lines(hashfiles[i].content) ELSE <<>>

EveryLineOk ==
    \A i \in 1..Len(hashfiles) : \A ls \in {LinesOf(i)} : \A j \in 1..Len(ls) :
        ~IsBlankLine(ls[j]) =>
            \E k \in 1..Len(log) :
                log[k].file = i /\ log[k].line_num = j /\ log[k].outcome = "Ok"

EveryLineEvaluated ==
    \A i \in 1..Len(hashfiles) : \A ls \in {LinesOf(i)} : \A j \in 1..Len(ls) :
        ~IsBlankLine(ls[j]) =>
            \E k \in 1..Len(log) :
                /\ log[k].file = i /\ log[k].line_num = j
                /\ log[k].outcome \in {"Ok", "Mismatch", "Error"}

\* C1 as stated: the run ends with exit code 0 if and only if every
\* non-blank line of every manifest produced Ok.
C1_ExitZeroIffEveryLineOk ==
    pc = "done" => (exit_code = 0 <=> EveryLineOk)

\* C1 as amended: the run ends with exit code 0 if and only if at least one
\* manifest was named, every manifest named could be read, and every
\* non-blank line of every manifest produced Ok; otherwise it ends with a
\* non-zero code.  From the moment a line has produced Mismatch or Error
\* all_ok is false and stays false, and the exit code is never 0.  A blank
\* line prints nothing and leaves all_ok alone.
C1_ExitZeroIffReadAndEveryLineOk ==
    /\ pc = "done" =>
          /\ exit_code \in {0, 1}
          /\ exit_code = 0 <=>
                /\ args.files # <<>>
                /\ \A i \in 1..Len(hashfiles) : hashfiles[i].readable
                /\ EveryLineOk
    /\ (\E k \in 1..Len(log) : log[k].outcome \in {"Mismatch", "Error"})
          => (~all_ok /\ exit_code # 0)
    /\ \A k \in 1..Len(log) :
          IsBlankLine(log[k].line) =>
              /\ log[k].outcome = "Skip"
              /\ log[k].pass /\ log[k].out = <<>> /\ log[k].err = <<>>

C1_Witness ==
    /\ pc = "done"
    /\ exit_code = 1
    /\ Len(log) = 2
    /\ log[1].outcome = "Mismatch"
    /\ log[2].outcome = "Ok"

\* C2: when the run has ended, every non-blank line of every manifest named
\* on the command line has been evaluated (Ok, Mismatch or Error).
C2_EveryLineEvaluatedAtExit ==
    pc = "done" => EveryLineEvaluated

\* C7: a non-blank line without two consecutive spaces is an Error
\* "improperly formatted" on the error stream, prints nothing, clears
\* all_ok, opens no file and recomputes no digest; the line after it in the
\* manifest is processed next, with the outcome it has one line earlier.
C7_MalformedLine ==
    \A k \in 1..Len(log) :
        (~IsBlankLine(log[k].line) /\ ~HasSeparator(log[k].line)) =>
            /\ log[k].outcome = "Error"
            /\ log[k].err = <<Diag(args.files[log[k].file], log[k].line_num,
                                   "improperly formatted")>>
            /\ log[k].out = <<>>
            /\ log[k].opened = <<>>
            /\ log[k].actual = <<>>
            /\ ~all_ok
            /\ (pc = "done" /\ log[k].line_num < Len(LinesOf(log[k].file))) =>
                  /\ k < Len(log)
                  /\ log[k + 1].file = log[k].file
                  /\ log[k + 1].line_num = log[k].line_num + 1
                  /\ \A r \in {check_line(log[k + 1].line,
                                         args.files[log[k + 1].file],
                                         log[k + 1].line_num - 2,
                                         args.algorithm, args.quiet,
                                         log[k + 1].bytes_read)} :
                         /\ r.outcome = log[k + 1].outcome
                         /\ r.out = log[k + 1].out
                         /\ r.pass = log[k + 1].pass

C7_Witness ==
    /\ pc = "done"
    /\ Len(log) = 2
    /\ ~IsBlankLine(log[1].line) /\ ~HasSeparator(log[1].line)
    /\ log[2].file = log[1].file
    /\ log[2].outcome = "Ok"
    /\ exit_code = 1

\* a letter paired with the same letter in the other case
CasePairs ==
    {<<UpperAlpha[c], LowerAlpha[c]>> : c \in 1..26}
        \cup {<<LowerAlpha[c], UpperAlpha[c]>> : c \in 1..26}

SameIgnoringCase(s, t) ==
    /\ Len(s) = Len(t)
    /\ \A i \in 1..Len(s) : s[i] = t[i] \/ <<s[i], t[i]>> \in CasePairs

\* the bytes calculate_hash_from_reader hashed, given the first read
BytesHashed(path, bytes_read) ==
    IF bytes_read = BufLen THEN file_open(path).data
    ELSE DTake(file_open(path).data, bytes_read)

\* the line evaluated last (every line of the log is the last one in the
\* state its evaluation leads to)
Newest == IF log = <<>> THEN {} ELSE {log[Len(log)]}

\* C9: a line with the separator whose target (not the dash) opens and
\* reads is Ok or Mismatch; it is Ok exactly when the digest recomputed
\* under the selected algorithm equals the expected digest up to letter
\* case.
C9_OkIffDigestsEqualIgnoringCase ==
    /\ \A k \in 1..Len(log) :
          \A e \in {log[k]} :
              /\ ( /\ ~IsBlankLine(e.line) /\ HasSeparator(e.line)
                   /\ e.label # <<"-">>
                   /\ file_open(e.label).ok /\ file_open(e.label).end = "eof" )
                      => e.outcome \in {"Ok", "Mismatch"}
              /\ e.outcome \in {"Ok", "Mismatch"} =>
                    (e.outcome = "Ok" <=> SameIgnoringCase(e.actual, e.expected))
    /\ \A e \in Newest :
          e.outcome \in {"Ok", "Mismatch"} =>
              e.actual = calculate_hash(BytesHashed(e.label, e.bytes_read),
                                        args.algorithm, FALSE)

C9_Witness ==
    \E k \in 1..Len(log) :
        /\ log[k].outcome = "Ok"
        /\ log[k].expected # log[k].actual
        /\ log[k].expected = to_uppercase(log[k].actual)

RECURSIVE AllOut(_)
AllOut(l) == IF l = <<>> THEN <<>> ELSE Head(l).out \o AllOut(Tail(l))

\* C10: Mismatch prints "<label>: FAILED" on standard output, quiet or not;
\* Ok prints "<label>: OK" exactly when quiet is not set; Error prints one
\* diagnostic on the error stream and nothing on standard output; standard
\* output holds just these lines, in order; and with the quiet flag the
\* other way round the line has the same outcome and the same effect on
\* all_ok.
C10_CheckReporting ==
    /\ stdout = AllOut(log)
    /\ \A e \in Newest :
          \A other \in {check_line(e.line, args.files[e.file],
                                    e.line_num - 1, args.algorithm,
                                    ~args.quiet, e.bytes_read)} :
              /\ other.outcome = e.outcome
              /\ other.pass = e.pass
    /\ \A k \in 1..Len(log) :
          \A e \in {log[k]} :
              /\ e.outcome = "Mismatch" =>
                    (e.out = <<e.label \o <<":", " ", "F", "A", "I", "L", "E", "D">>>>
                     /\ e.err = <<>>)
              /\ e.outcome = "Ok" =>
                    /\ e.err = <<>>
                    /\ ~args.quiet => e.out = <<e.label \o <<":", " ", "O", "K">>>>
                    /\ args.quiet => e.out = <<>>
              /\ e.outcome = "Error" => (e.out = <<>> /\ Len(e.err) = 1)

C10_Witness ==
    /\ pc = "done"
    /\ args.quiet
    /\ Len(log) = 2
    /\ log[1].outcome = "Ok"
    /\ log[2].outcome = "Mismatch"
    /\ stdout = <<FileA \o <<":", " ", "F", "A", "I", "L", "E", "D">>>>

\* C11: a line whose target label is the dash is an Error "cannot check
\* stdin" on the error stream: it prints nothing, clears all_ok (so the
\* exit code is never 0), opens nothing and recomputes no digest; standard
\* input is never read at any point of a check-mode run; and the line
\* after the dash line in the manifest is processed next.
C11_DashTargetIsRefused ==
    /\ \A i \in 1..Len(opens) : opens[i] # StdinLock
    /\ \A k \in 1..Len(log) :
          \A e \in {log[k]} :
              /\ StdinLock \notin {e.opened[i] : i \in 1..Len(e.opened)}
              /\ ( /\ ~IsBlankLine(e.line) /\ HasSeparator(e.line)
                   /\ e.label = <<"-">> ) =>
                    /\ e.outcome = "Error"
                    /\ e.err = <<Diag(<<>>, 0, "cannot check stdin")>>
                    /\ e.out = <<>>
                    /\ ~e.pass
                    /\ e.opened = <<>>
                    /\ e.actual = <<>>
                    /\ ~all_ok
                    /\ exit_code # 0
                    /\ (pc = "done" /\ e.line_num < Len(LinesOf(e.file))) =>
                          /\ k < Len(log)
                          /\ log[k + 1].file = e.file
                          /\ log[k + 1].line_num = e.line_num + 1

C11_Witness ==
    /\ pc = "done"
    /\ exit_code = 1
    /\ Len(log) = 2
    /\ log[1].line = calculate_hash(DataA, args.algorithm, FALSE) \o Sep \o FileDash
    /\ log[1].outcome = "Error"
    /\ log[2].file = log[1].file
    /\ log[2].outcome = "Ok"
    /\ opens = <<FileA>>

\* C12: a line empty after trimming is skipped; any other line is trimmed
\* and the trimmed line is split at its first two-space separator into the
\* expected digest and the target label, so that whitespace before the
\* digest or after the path is in neither field and a later separator
\* stays inside the label; a trimmed line without separator is malformed.
C12_TrimmedLineIsSplit ==
    \A k \in 1..Len(log) :
        \A e \in {log[k]}, parts \in {splitn2(trim(log[k].line))} :
            /\ trim(e.line) = <<>> => e.outcome = "Skip"
            /\ (trim(e.line) # <<>> /\ Len(parts) = 2) =>
                  /\ e.expected = parts[1]
                  /\ e.label = parts[2]
            /\ (trim(e.line) # <<>> /\ Len(parts) # 2) =>
                  /\ e.outcome = "Error"
                  /\ e.opened = <<>>

(***************************************************************************)
(* Properties of compute mode and of the round trip.                       *)
(***************************************************************************)
\* C3: the line compute mode printed for a file, fed unchanged to check
\* mode under the same selector, yields Ok: check mode prints "<path>: OK"
\* and exits with code 0.
C3_RoundTripYieldsOk ==
    (pc = "done" /\ args.check /\ call.path # <<>>) =>
        /\ exit_code = 0
        /\ Len(log) = 1
        /\ log[1].outcome = "Ok"
        /\ stdout = <<call.path \o <<":", " ", "O", "K">>>>

\* a path that cannot be opened, or that opens and cannot be read
CannotRead(path) ==
    \/ ~file_open(path).ok
    \/ (file_open(path).data = <<>> /\ file_open(path).end = "err")

FirstBad ==
    CHOOSE k \in 1..Len(all_files) :
        /\ CannotRead(all_files[k])
        /\ \A j \in 1..(k - 1) : ~CannotRead(all_files[j])

EndsWith(s, t) ==
    Len(s) >= Len(t) /\ SubSeq(s, Len(s) - Len(t) + 1, Len(s)) = t

\* C8: the files are processed in sorted order, one printed line each; at
\* the first one that cannot be opened or read the run ends with exit code
\* 1 and exactly one diagnostic, naming that file; the files before it have
\* their line, and neither it nor any file after it is opened after that,
\* hashed or printed.  With no such file the run ends with exit code 0, a
\* line for every file and no diagnostic.
C8_FirstUnreadableFileIsFatal ==
    pc \in {"files", "done"} /\ ~args.check /\ expand(args.files).ok
    /\ args.files # <<>> =>
        /\ \A i \in 1..(Len(all_files) - 1) :
              ~str_less(all_files[i + 1], all_files[i])
        /\ Len(all_files) = Len(expand(args.files).paths)
        /\ \A i \in 1..Len(stdout) :
              /\ i <= Len(all_files)
              /\ ~CannotRead(all_files[i])
              /\ ~args.quiet => EndsWith(stdout[i], <<" ", " ">> \o all_files[i])
        /\ \A i \in 1..Len(opens) : opens[i] = all_files[i]
        /\ IF \E k \in 1..Len(all_files) : CannotRead(all_files[k])
           THEN /\ Len(stdout) < FirstBad
                /\ Len(opens) <= FirstBad
                /\ pc = "done" =>
                      /\ exit_code = 1
                      /\ Len(stdout) = FirstBad - 1
                      /\ Len(stderr) = 1
                      /\ stderr[1].subject = all_files[FirstBad]
           ELSE pc = "done" =>
                      /\ exit_code = 0
                      /\ stderr = <<>>
                      /\ Len(stdout) = Len(all_files)

C8_Witness ==
    /\ pc = "done"
    /\ all_files = <<FileDash, FileA, FileD, FileG>>
    /\ exit_code = 1
    /\ Len(stdout) = 2
    /\ stderr = <<Diag(FileD, 0, "Failed to read from input")>>

====
